---- MODULE Spec2Model ----
(***************************************************************************)
(* Raw-layer ingestion of the banking pipeline: the idempotency gate over  *)
(* raw.file_ingestion_metadata, the schema version chain in                 *)
(* raw.schema_version_tracking and the append-only raw tables, as written   *)
(* by the assets raw_accounts and raw_customers.                            *)
(***************************************************************************)
EXTENDS Integers, Sequences, FiniteSets, TLC

\* ------------------------------------------------------------------ bounds
\* number of put_object calls the environment makes on the landing bucket
MaxUploads == 2
\* number of asset invocations (materializations) that are started
MaxStarts == 2
\* number of batches other runs append to a raw table while the layer assets run
MaxAppends == 2
\* number of layer asset invocations that are started
MaxLayerRuns == 3
\* number of mutating database calls that are issued
MaxExecutes == 2
\* number of put_object calls the sensor comes to see
MaxPuts == 3
\* number of evaluations of the sensor
MaxEvals == 3

\* ------------------------------------------------------- processes, assets
\* invocations that may overlap (a scheduled run and a manual run)
Procs == {"run1", "run2"}

\* invocations are interchangeable: a new one takes the first free slot
Slot(p) == IF p = "run1" THEN 1 ELSE 2

\* the raw assets, each being its listing prefix, file_type and table;
\* raw_customers is the same code as raw_accounts with "customers" for "accounts"
Assets == {"accounts"}

TableName(asset) == IF asset = "accounts" THEN "raw_accounts" ELSE "raw_customers"

Tables == {TableName(a) : a \in Assets}

\* ------------------------------------------------------------ object store
\* object keys of the landing bucket, as token sequences, in the
\* lexicographic order list_objects_v2 returns them
KeyOrder == << <<"accounts", ".csv">>, <<"accounts", "_v2.csv">> >>

Keys == {KeyOrder[i] : i \in DOMAIN KeyOrder}

\* str.startswith, which is what Prefix= selects
HasPrefix(key, prefix) ==
    /\ Len(prefix) <= Len(key)
    /\ SubSeq(key, 1, Len(prefix)) = prefix

\* byte contents that get uploaded: a parsed CSV is its columns (name, pandas
\* dtype, whether any cell is null) and its number of rows
Contents == {"c1", "c2", "c3"}

Columns(c) ==
    CASE c = "c1" -> << [name |-> "id", dtype |-> "int64", hasnull |-> FALSE],
                        [name |-> "balance", dtype |-> "float64", hasnull |-> FALSE] >>
      [] c = "c2" -> << [name |-> "id", dtype |-> "int64", hasnull |-> FALSE],
                        [name |-> "balance", dtype |-> "float64", hasnull |-> FALSE] >>
      [] OTHER    -> << [name |-> "id", dtype |-> "int64", hasnull |-> FALSE],
                        [name |-> "balance", dtype |-> "float64", hasnull |-> TRUE] >>

NumRows(c) == IF c = "c1" THEN 2 ELSE 1

SizeBytes(c) == CASE c = "c1" -> 40 [] c = "c2" -> 30 [] OTHER -> 28

\* hashlib.md5(content).hexdigest(): a digest of the bytes alone
Md5(c) == <<"md5", c>>

NoObject == [content |-> "", last_modified |-> 0]

\* list_files: the objects under the prefix, in key order
list_files(bkt, asset) ==
    SelectSeq(KeyOrder, LAMBDA k : bkt[k] # NoObject /\ HasPrefix(k, <<asset>>))

\* sorted(files, key=last_modified, reverse=True)[0]: the sort is stable, so
\* among equal timestamps the first listed key wins
\* the first object listed is taken, whatever its age
LatestFile_first(bkt, files) == files[1]

LatestFile(bkt, files) ==
    LET idx == CHOOSE i \in DOMAIN files :
                 /\ \A j \in DOMAIN files :
                       bkt[files[j]].last_modified <= bkt[files[i]].last_modified
                 /\ \A j \in 1..(i - 1) :
                       bkt[files[j]].last_modified < bkt[files[i]].last_modified
    IN files[idx]

\* ------------------------------------------------------------------ schema
\* _detect_schema: name, dtype and nullability of every column, in order
detect_schema(c) ==
    [i \in DOMAIN Columns(c) |->
        [name |-> Columns(c)[i].name,
         type |-> Columns(c)[i].dtype,
         nullable |-> Columns(c)[i].hasnull]]

\* json.dumps / json.loads of a schema: the stored text form of each column
JsonDumps(schema) ==
    [i \in DOMAIN schema |->
        <<"name", schema[i].name, "type", schema[i].type,
          "nullable", IF schema[i].nullable THEN "true" ELSE "false">>]

JsonLoads(text) ==
    [i \in DOMAIN text |->
        [name |-> text[i][2], type |-> text[i][4], nullable |-> (text[i][6] = "true")]]

\* the rows of raw.schema_version_tracking of one table with the greatest
\* schema_version (ORDER BY schema_version DESC LIMIT 1 returns one of them)
LatestVersions(rows, table) ==
    {r \in rows : /\ r.table_name = table
                  /\ \A q \in rows : q.table_name = table => q.schema_version <= r.schema_version}

\* the row standing for an empty query result
NoSchemaRow == [schema_id |-> 0, table_name |-> "", schema_version |-> 0,
                column_definitions |-> <<>>, previous_version_id |-> 0,
                change_description |-> ""]

\* a comparison that reports a change whatever the stored schema is
check_schema_change_always(prev, new_schema) ==
    IF prev = NoSchemaRow
    THEN [has_changed |-> TRUE, version |-> 1, prev_id |-> 0]
    ELSE [has_changed |-> TRUE, version |-> prev.schema_version + 1,
          prev_id |-> prev.schema_id]

\* a comparison that numbers a changed schema with the stored version
check_schema_change_no_increment(prev, new_schema) ==
    IF prev = NoSchemaRow
    THEN [has_changed |-> TRUE, version |-> 1, prev_id |-> 0]
    ELSE IF JsonLoads(prev.column_definitions) # new_schema
         THEN [has_changed |-> TRUE, version |-> prev.schema_version,
               prev_id |-> prev.schema_id]
         ELSE [has_changed |-> FALSE, version |-> prev.schema_version,
               prev_id |-> prev.schema_id]

\* a comparison of column names and types that leaves nullability out
check_schema_change_ignore_nullable(prev, new_schema) ==
    IF prev = NoSchemaRow
    THEN [has_changed |-> TRUE, version |-> 1, prev_id |-> 0]
    ELSE IF [i \in DOMAIN prev.column_definitions |->
                <<JsonLoads(prev.column_definitions)[i].name,
                  JsonLoads(prev.column_definitions)[i].type>>]
              # [i \in DOMAIN new_schema |-> <<new_schema[i].name, new_schema[i].type>>]
         THEN [has_changed |-> TRUE, version |-> prev.schema_version + 1,
               prev_id |-> prev.schema_id]
         ELSE [has_changed |-> FALSE, version |-> prev.schema_version,
               prev_id |-> prev.schema_id]

\* _check_schema_change against the row `prev` the query returned
\* (NoSchemaRow when it returned nothing)
check_schema_change(prev, new_schema) ==
    IF prev = NoSchemaRow
    THEN [has_changed |-> TRUE, version |-> 1, prev_id |-> 0]
    ELSE IF JsonLoads(prev.column_definitions) # new_schema
         THEN [has_changed |-> TRUE, version |-> prev.schema_version + 1,
               prev_id |-> prev.schema_id]
         ELSE [has_changed |-> FALSE, version |-> prev.schema_version,
               prev_id |-> prev.schema_id]

\* _record_schema_version: one INSERT
record_schema_version(rows, schema_id, table, schema, version, prev_id, change_desc) ==
    rows \cup {[schema_id |-> schema_id, table_name |-> table,
                schema_version |-> version,
                column_definitions |-> JsonDumps(schema),
                previous_version_id |-> prev_id,
                change_description |-> change_desc]}

\* ------------------------------------------------------------------ ledger
\* a gate that compares against a status the code never writes
check_file_processed_wrong_status(led, file_hash) ==
    \E e \in led : e.file_hash = file_hash /\ e.processing_status = "processed"

\* a gate that asks only whether the hash is known
check_file_processed_any_status(led, file_hash) ==
    \E e \in led : e.file_hash = file_hash

\* _check_file_processed
check_file_processed(led, file_hash) ==
    \E e \in led : e.file_hash = file_hash /\ e.processing_status = "completed"

\* the INSERT without its ON CONFLICT clause, on a table without UNIQUE(file_hash)
record_file_metadata_plain_insert(led, file_id, file_path, file_name, file_type, file_hash, file_size, row_count, ts, status, error_message) ==
    led \cup {[file_id |-> file_id, file_path |-> file_path,
               file_name |-> file_name, file_type |-> file_type,
               file_hash |-> file_hash, file_size_bytes |-> file_size,
               row_count |-> row_count, ingestion_timestamp |-> ts,
               processing_status |-> status,
               error_message |-> error_message]}

\* an upsert that replaces the whole row (every column SET from EXCLUDED)
record_file_metadata_update_all(led, file_id, file_path, file_name, file_type, file_hash, file_size, row_count, ts, status, error_message) ==
    {e \in led : e.file_hash # file_hash}
        \cup {[file_id |-> file_id, file_path |-> file_path,
                file_name |-> file_name, file_type |-> file_type,
                file_hash |-> file_hash, file_size_bytes |-> file_size,
                row_count |-> row_count, ingestion_timestamp |-> ts,
                processing_status |-> status,
                error_message |-> error_message]}

\* an upsert that leaves an existing row as it is (ON CONFLICT DO NOTHING)
record_file_metadata_do_nothing(led, file_id, file_path, file_name, file_type, file_hash, file_size, row_count, ts, status, error_message) ==
    IF \E e \in led : e.file_hash = file_hash
    THEN led
    ELSE led \cup {[file_id |-> file_id, file_path |-> file_path,
                    file_name |-> file_name, file_type |-> file_type,
                    file_hash |-> file_hash, file_size_bytes |-> file_size,
                    row_count |-> row_count, ingestion_timestamp |-> ts,
                    processing_status |-> status,
                    error_message |-> error_message]}

\* _record_file_metadata: INSERT ... ON CONFLICT (file_hash) DO UPDATE SET
\* processing_status, error_message, ingestion_timestamp
record_file_metadata(led, file_id, file_path, file_name, file_type, file_hash, file_size, row_count, ts, status, error_message) ==
    IF \E e \in led : e.file_hash = file_hash
    THEN {IF e.file_hash = file_hash
          THEN [e EXCEPT !.processing_status = status,
                         !.error_message = error_message,
                         !.ingestion_timestamp = ts]
          ELSE e : e \in led}
    ELSE led \cup {[file_id |-> file_id, file_path |-> file_path,
                    file_name |-> file_name, file_type |-> file_type,
                    file_hash |-> file_hash, file_size_bytes |-> file_size,
                    row_count |-> row_count, ingestion_timestamp |-> ts,
                    processing_status |-> status,
                    error_message |-> error_message]}

\* ------------------------------------------------------- downstream layers
\* the layer assets run_dbt_structured, run_dbt_curated and run_dbt_access
Layers == {"structured", "curated", "access"}

\* the tables the dbt models of a layer build
TargetTables(layer) ==
    CASE layer = "structured" -> {"str_accounts", "str_customers"}
      [] layer = "curated"    -> {"dim_customer", "dim_account", "fact_customer_balances"}
      [] OTHER                -> {"account_summary"}

AllTargets == UNION {TargetTables(l) : l \in Layers}

\* the AccountID cells of the rows of a parsed CSV, as read from the file
Rows(c) ==
    CASE c = "c1" -> <<" A1", "A2">>
      [] c = "c2" -> <<"A1">>
      [] OTHER    -> <<"A3">>

\* trim(cast(AccountID as varchar)): the cell without surrounding blanks
Trim(cell) == IF cell = " A1" THEN "A1" ELSE cell

\* the account ids that occur in the files
AccountIds == {Trim(Rows(c)[j]) : <<c, j>> \in {cj \in Contents \X (1..2) : cj[2] \in DOMAIN Rows(cj[1])}}

\* the account_type of an account
AccountType(id) == IF id \in {"A2", "A3"} THEN "checking" ELSE "savings"

\* a table that is not in the catalog
NoTable == [exists |-> FALSE, keys |-> {}]

\* the rows of a raw table, each named by its batch and its place in the batch
RawRows(rt) == UNION {{<<i, j>> : j \in DOMAIN Rows(rt[i].content)} : i \in DOMAIN rt}

\* the AccountID cell of one row of a raw table
CellAt(rt, pos) == Rows(rt[pos[1]].content)[pos[2]]

\* which query of a detector produced its count: the NOT EXISTS query; when
\* that raises (a table is missing, or the read fails: fail1) the count of
\* all source rows; when that raises too (fail2) the default 0
detector_path(source_exists, target_exists, fail1, fail2) ==
    IF source_exists /\ target_exists /\ ~fail1 THEN "anti_join"
    ELSE IF source_exists /\ ~fail2 THEN "count_all"
    ELSE "zero"

\* a detector that counts the source rows whatever the target holds
check_for_new_raw_data_count_all(rt, target, fail1, fail2) ==
    IF rt = <<>> \/ fail2 THEN 0 ELSE Cardinality(RawRows(rt))

\* _check_for_new_raw_data, for one raw table and its structured table
check_for_new_raw_data(rt, target, fail1, fail2) ==
    LET path == detector_path(rt # <<>>, target.exists, fail1, fail2) IN
    CASE path = "anti_join" ->
           Cardinality({pos \in RawRows(rt) : Trim(CellAt(rt, pos)) \notin target.keys})
      [] path = "count_all" -> Cardinality(RawRows(rt))
      [] OTHER -> 0

\* _check_for_new_structured_data: the savings accounts of str_accounts that
\* fact_customer_balances does not hold
check_for_new_structured_data(source, target, fail1, fail2) ==
    LET path == detector_path(source.exists, target.exists, fail1, fail2) IN
    CASE path = "anti_join" ->
           Cardinality({k \in source.keys : AccountType(k) = "savings" /\ k \notin target.keys})
      [] path = "count_all" ->
           Cardinality({k \in source.keys : AccountType(k) = "savings"})
      [] OTHER -> 0

\* an existence check that is satisfied by one table of the layer
tables_exist_any(layer, tbls, fail) ==
    /\ ~fail
    /\ Cardinality({t \in TargetTables(layer) : tbls[t].exists}) >= 1

\* _tables_exist of structured_layer (== 2) and of curated_layer (>= 3);
\* False when the catalog query raises
tables_exist(layer, tbls, fail) ==
    /\ ~fail
    /\ IF layer = "structured"
       THEN Cardinality({t \in TargetTables(layer) : tbls[t].exists}) = 2
       ELSE Cardinality({t \in TargetTables(layer) : tbls[t].exists}) >= 3

\* a test command that raises on failure in every layer
allow_failure_nowhere(layer) == FALSE

\* a test command that tolerates failure in every layer
allow_failure_everywhere(layer) == TRUE

\* the allow_failure argument of the layer's `dbt test` command; the
\* _run_dbt_command of access_layer has no such parameter
allow_failure(layer) == layer \in {"structured", "curated"}

\* a decision that never skips
skip_dbt_run_never(tables_exist_result, has_new_data) == FALSE

\* `if tables_exist and not has_new_data`: the invocation skips the runner
skip_dbt_run(tables_exist_result, has_new_data) == tables_exist_result /\ ~has_new_data

\* whether the relations the models of a layer select from are there
SourcesExist(layer, tbls, rt) ==
    CASE layer = "structured" -> rt # <<>>
      [] layer = "curated"    -> \A t \in TargetTables("structured") : tbls[t].exists
      [] OTHER                -> \A t \in TargetTables("curated") : tbls[t].exists

\* what a successful `dbt run --select <layer>.*` leaves in the database:
\* every target table exists; a full refresh recomputes the keyed table from
\* its source, an incremental run merges the source keys into it
dbt_run(layer, full, tbls, rt) ==
    LET old(t) == IF full THEN {} ELSE tbls[t].keys IN
    [t \in AllTargets |->
        IF t \notin TargetTables(layer) THEN tbls[t]
        ELSE CASE t = "str_accounts" ->
                    [exists |-> TRUE,
                     keys |-> old(t) \cup {Trim(CellAt(rt, pos)) : pos \in RawRows(rt)}]
               [] t = "fact_customer_balances" ->
                    [exists |-> TRUE,
                     keys |-> old(t) \cup {k \in tbls["str_accounts"].keys :
                                             AccountType(k) = "savings"}]
               [] t = "account_summary" ->
                    [exists |-> TRUE, keys |-> tbls["fact_customer_balances"].keys]
               [] OTHER -> [exists |-> TRUE, keys |-> {}]]

\* -------------------------------------------------- the file sensor (pure)
\* the keys of the landing bucket the sensor may find, in the order of the
\* listing; a key is the sequence of the pieces of its name
SensorKeyOrder ==
    << <<"ACCOUNTS", "_customers", ".csv">>, <<"accounts", ".csv">>,
       <<"accounts", ".txt">>, <<"customers", ".csv">> >>

SensorKeys == {SensorKeyOrder[i] : i \in DOMAIN SensorKeyOrder}

\* the last_modified of a key that is not in the bucket
Absent == 0

\* str.lower of a piece of a key
Lower(piece) == IF piece = "ACCOUNTS" THEN "accounts" ELSE piece

\* word in key.lower()
Contains(key, word) ==
    \E i \in DOMAIN key : Lower(key[i]) = word \/ Lower(key[i]) = "_" \o word

\* key.lower().endswith(ext)
EndsWith(key, ext) == Lower(key[Len(key)]) = ext

\* s3.list_files(bucket): the objects of the bucket, in key order
sensor_list_files(bkt) ==
    LET present == SelectSeq(SensorKeyOrder, LAMBDA k : bkt[k] # Absent)
    IN [i \in DOMAIN present |-> [key |-> present[i], last_modified |-> bkt[present[i]]]]

\* which of accounts_file, customers_file the loop of the sensor may assign
\* a listed object to: the elif makes an accounts key never a customers file
SensorKind(key) ==
    IF Contains(key, "accounts") /\ EndsWith(key, ".csv") THEN "accounts"
    ELSE IF Contains(key, "customers") /\ EndsWith(key, ".csv") THEN "customers"
    ELSE "other"

\* no file of the kind was found
NoFile == [key |-> <<>>, last_modified |-> Absent]

\* the loop of the sensor: the first listed object of the kind with the
\* greatest last_modified
latest_of_kind(files, kind) ==
    LET RECURSIVE scan(_, _)
        scan(i, best) ==
            IF i > Len(files) THEN best
            ELSE IF SensorKind(files[i].key) = kind
                    /\ (best = NoFile \/ files[i].last_modified > best.last_modified)
                 THEN scan(i + 1, files[i])
                 ELSE scan(i + 1, best)
    IN scan(1, NoFile)

\* context.cursor before any update_cursor
NoCursor == <<>>

\* f"{accounts_file['last_modified']}_{customers_file['last_modified']}"
cursor_key_of(accounts_file, customers_file) ==
    <<accounts_file.last_modified, "_", customers_file.last_modified>>

\* nothing was evaluated yet.  Three fields are not state of the code:
\* listing_raised tells whether list_files raised in the evaluation, pair is
\* the cursor key of the files that were in the bucket at the evaluation,
\* requests counts the RunRequests yielded since that pair last changed
NoSensorOut == [yields |-> <<>>, raised |-> FALSE, listing_raised |-> FALSE,
                pair |-> <<>>, requests |-> 0]

SkipReason(reason) == [type |-> "SkipReason", reason |-> reason, run_key |-> NoCursor]

RunRequest(run_key) == [type |-> "RunRequest", reason |-> "", run_key |-> run_key]

\* the sensor asks for a run at every evaluation that finds both files
new_file_sensor_no_cursor_check(listing_raises, files, last_cursor) ==
    LET accounts_file == latest_of_kind(files, "accounts")
        customers_file == latest_of_kind(files, "customers")
        cursor_key == cursor_key_of(accounts_file, customers_file)
    IN IF listing_raises \/ files = <<>> \/ accounts_file = NoFile \/ customers_file = NoFile
       THEN [yields |-> <<SkipReason("skip")>>, cursor |-> last_cursor, raised |-> FALSE]
       ELSE [yields |-> <<RunRequest(cursor_key)>>, cursor |-> cursor_key, raised |-> FALSE]

\* the sensor asks for a run and forgets to move the cursor
new_file_sensor_no_update(listing_raises, files, last_cursor) ==
    LET accounts_file == latest_of_kind(files, "accounts")
        customers_file == latest_of_kind(files, "customers")
        cursor_key == cursor_key_of(accounts_file, customers_file)
    IN IF listing_raises \/ files = <<>> \/ accounts_file = NoFile
             \/ customers_file = NoFile \/ last_cursor = cursor_key
       THEN [yields |-> <<SkipReason("skip")>>, cursor |-> last_cursor, raised |-> FALSE]
       ELSE [yields |-> <<RunRequest(cursor_key)>>, cursor |-> last_cursor, raised |-> FALSE]

\* new_file_sensor: what one evaluation yields and the cursor it leaves
new_file_sensor(listing_raises, files, last_cursor) ==
    LET accounts_file == latest_of_kind(files, "accounts")
        customers_file == latest_of_kind(files, "customers")
        cursor_key == cursor_key_of(accounts_file, customers_file)
        skip(reason) == [yields |-> <<SkipReason(reason)>>, cursor |-> last_cursor,
                         raised |-> FALSE]
    IN IF listing_raises THEN skip("Could not access MinIO")
       ELSE IF files = <<>> THEN skip("No files found in landing bucket")
       ELSE IF accounts_file = NoFile \/ customers_file = NoFile
            THEN skip("Missing required files")
       ELSE IF last_cursor = cursor_key THEN skip("No new files since last run")
       ELSE [yields |-> <<RunRequest(cursor_key)>>, cursor |-> cursor_key,
             raised |-> FALSE]

\* ------------------------------------------------------------------- state
VARIABLES
    bucket,          \* landing bucket: key -> [content, last_modified] or NoObject
    now,             \* wall clock (object timestamps, datetime.now())
    starts,          \* asset invocations started so far
    ledger,          \* rows of raw.file_ingestion_metadata
    schemaVersions,  \* rows of raw.schema_version_tracking
    rawTable,        \* raw.<table>: the batches of rows appended, in order
    pc,              \* position of each invocation in the asset function
    loc,             \* local variables of each invocation
    result,          \* how each invocation last ended
    tables,          \* the tables of the schemas structured, curated and access
    layerStarts,     \* invocations of the layer assets started so far
    lay,             \* the layer asset invocation under way: position and locals
    layResult,       \* how the last invocation of each layer asset ended
    summaryCheck,    \* what dbt test said about access.account_summary as it is
    accessBucket,    \* the access bucket: the object account_summary.csv
    executes,        \* mutating database calls issued so far
    retry,           \* the mutating database call under way
    retryResult,     \* how the last mutating database call ended
    processMetadata, \* rows of curated.process_metadata
    landing,         \* the landing bucket as the sensor lists it: key -> last_modified
    sensorClock,     \* the clock of the uploads the sensor sees
    cursor,          \* context.cursor of new_file_sensor
    sensorEvals,     \* evaluations of new_file_sensor so far
    sensorOut,       \* what the last evaluation yielded, and whether it raised
    exportResult     \* how the last invocation of export_account_summary ended

vars == <<bucket, now, starts, ledger, schemaVersions, rawTable, pc, loc, result,
          tables, layerStarts, lay, layResult, summaryCheck, accessBucket,
          executes, retry, retryResult, processMetadata,
          landing, sensorClock, cursor, sensorEvals, sensorOut, exportResult>>

\* the state of new_file_sensor and of the bucket it lists
sensorVars == <<landing, sensorClock, cursor, sensorEvals, sensorOut>>

\* one mutating database call followed attempt by attempt
retryVars == <<executes, retry, retryResult>>

\* the published report and what is known of the table it is read from
exportVars == <<summaryCheck, accessBucket, exportResult>>

\* the state of the downstream layers, which the raw assets leave alone
layerVars == <<tables, layerStarts, lay, layResult, exportVars>>

\* the state of the raw layer that the layer assets never read
ingestVars == <<bucket, now, starts, ledger, schemaVersions, pc, loc, result>>

\* chain_before is not a variable of the code: it remembers the rows of
\* raw.schema_version_tracking at the moment the invocation started
NoLoc == [asset |-> "", key |-> <<>>, file_size |-> 0, file_hash |-> <<>>,
          df |-> "", has_changed |-> FALSE, version |-> 0, prev_id |-> 0,
          error |-> "", gate_checked |-> FALSE, record_calls |-> <<>>,
          chain_before |-> {}]

NoResult == [status |-> "none", file_hash |-> <<>>, row_count |-> 0,
             schema_version |-> 0, error |-> "", record_calls |-> <<>>]

\* the return code of a command that was not run
NotRun == -1

\* no layer asset is running.  source_rows is not a variable of the code: it
\* remembers how many rows the source of the layer held when the build ran;
\* build_returncode is result["returncode"] of the build command
NoLay == [layer |-> "", pc |-> "idle", tables_exist |-> FALSE, new_count |-> 0,
          has_new_data |-> FALSE, path |-> "", full_refresh |-> FALSE,
          cmds |-> <<>>, rows |-> 0, source_rows |-> 0,
          build_returncode |-> NotRun]

\* test_returncode is the return code of the `dbt test` command of the
\* invocation, which the code keeps in test_result; error is the message of
\* the exception the invocation ended with
NoLayResult == [status |-> "none", dbt_run |-> FALSE, tests_passed |-> FALSE,
                new_found |-> 0, rows |-> 0, cmds |-> <<>>, source_rows |-> 0,
                test_returncode |-> NotRun, error |-> ""]

\* no account_summary.csv in the access bucket.  check is not part of the
\* object: it remembers what the validation had said of the table uploaded
NoReport == [uploaded |-> FALSE, keys |-> {}, check |-> "none"]

\* no mutating call is under way.  invocations counts the calls of the wrapped
\* function, waits lists the arguments of time.sleep; neither is a variable of
\* the code
NoRetry == [pc |-> "idle", call |-> "", attempt |-> 0, invocations |-> 0,
            waits |-> <<>>, wait_time |-> 0, outcome |-> ""]

NoRetryResult == [status |-> "none", call |-> "", invocations |-> 0,
                  waits |-> <<>>, outcome |-> ""]

\* export_account_summary has not run.  uploads counts the calls of
\* s3.upload_df_as_csv of the invocation; it is not a variable of the code
NoExportResult == [status |-> "none", row_count |-> 0, uploads |-> 0]

\* uuid.uuid4(): an identifier no stored row carries
Uuid4 ==
    LET used == {e.file_id : e \in ledger} \cup {r.schema_id : r \in schemaVersions}
    IN IF used = {} THEN 1 ELSE 1 + CHOOSE m \in used : \A u \in used : u <= m

\* the state after initialize_database: empty metadata tables, no raw table
Init ==
    /\ bucket = [k \in Keys |-> NoObject]
    /\ now = 0
    /\ starts = 0
    /\ ledger = {}
    /\ schemaVersions = {}
    /\ rawTable = [t \in Tables |-> <<>>]
    /\ pc = [p \in Procs |-> "idle"]
    /\ loc = [p \in Procs |-> NoLoc]
    /\ result = [p \in Procs |-> NoResult]
    /\ tables = [t \in AllTargets |-> NoTable]
    /\ layerStarts = 0
    /\ lay = NoLay
    /\ layResult = [l \in Layers |-> NoLayResult]
    /\ summaryCheck = "none"
    /\ accessBucket = NoReport
    /\ executes = 0
    /\ retry = NoRetry
    /\ retryResult = NoRetryResult
    /\ processMetadata = {}
    /\ landing = [k \in SensorKeys |-> Absent]
    /\ sensorClock = 0
    /\ cursor = NoCursor
    /\ sensorEvals = 0
    /\ sensorOut = NoSensorOut
    /\ exportResult = NoExportResult

\* ----------------------------------------------------------- environment
\* put_object on the landing bucket: a new object, or an overwrite of a key;
\* the clock advances with every upload
\* the invocation fails when nothing is listed
NoFilesResult_failed == [NoResult EXCEPT !.status = "failed", !.error = "no files"]

\* the MaterializeResult returned when nothing is listed: status NO FILES FOUND
NoFilesResult == [NoResult EXCEPT !.status = "no_files"]

\* the table is created anew from the batch
insert_into_replace(rows, batch) == <<batch>>

\* CREATE TABLE IF NOT EXISTS raw.<table> ...; INSERT INTO raw.<table>
\* SELECT * FROM df: the rows there stay, the batch is added after them
insert_into(rows, batch) == Append(rows, batch)

Upload(k, c) ==
    /\ now < MaxUploads
    /\ now' = now + 1
    /\ bucket' = [bucket EXCEPT ![k] = [content |-> c, last_modified |-> now + 1]]
    /\ UNCHANGED <<starts, ledger, schemaVersions, rawTable, pc, loc, result, layerVars, retryVars, processMetadata, sensorVars>>

\* ------------------------------------------------- raw_accounts / raw_customers
\* The asset function, one action per statement that reads or writes the
\* bucket or the database.  Inside the try block every such statement either
\* takes effect or raises with no effect (an S3 error, or a lock conflict the
\* retries did not outlast).  An exception raised before the try block (by the
\* listing, the hashing or the gate query) ends the invocation with nothing
\* read into the database and nothing written; it is left out.

\* the invocation ends: with a MaterializeResult or with an exception
Return(p, res) ==
    /\ pc' = [pc EXCEPT ![p] = "idle"]
    /\ loc' = [loc EXCEPT ![p] = NoLoc]
    /\ result' = [result EXCEPT ![p] = res]

\* an exception inside the try block: control goes to the except clause
Except(p, msg) ==
    /\ pc' = [pc EXCEPT ![p] = "except"]
    /\ loc' = [loc EXCEPT ![p].error = msg]
    /\ UNCHANGED result

\* s3.list_files and the choice of the latest file (lines 219-239)
ListAndSelect(p, asset) ==
    LET files == list_files(bucket, asset) IN
      \/ /\ files = <<>>
         /\ Return(p, NoFilesResult)
      \/ /\ files # <<>>
         /\ LET key == LatestFile(bucket, files) IN
              loc' = [loc EXCEPT ![p] = [NoLoc EXCEPT !.asset = asset, !.key = key,
                              !.file_size = SizeBytes(bucket[key].content),
                              !.chain_before = schemaVersions]]
         /\ pc' = [pc EXCEPT ![p] = "hash"]
         /\ result' = [result EXCEPT ![p] = NoResult]

\* the start of one invocation of the asset function
ListFiles(p, asset) ==
    /\ pc[p] = "idle"
    /\ \A q \in Procs : pc[q] = "idle" => Slot(p) <= Slot(q)
    /\ starts < MaxStarts
    /\ starts' = starts + 1
    /\ ListAndSelect(p, asset)
    /\ UNCHANGED <<bucket, now, ledger, schemaVersions, rawTable, layerVars, retryVars, processMetadata, sensorVars>>

\* s3.get_file_hash: a download of the object as it is now (line 238)
GetFileHash(p) ==
    /\ pc[p] = "hash"
    /\ loc' = [loc EXCEPT ![p].file_hash = Md5(bucket[loc[p].key].content)]
    /\ pc' = [pc EXCEPT ![p] = "gate"]
    /\ UNCHANGED result
    /\ UNCHANGED <<bucket, now, starts, ledger, schemaVersions, rawTable, layerVars, retryVars, processMetadata, sensorVars>>

\* the idempotency gate (lines 242-249)
Gate(p) ==
    /\ pc[p] = "gate"
    /\ \/ /\ check_file_processed(ledger, loc[p].file_hash)
          /\ Return(p, [NoResult EXCEPT !.status = "skipped",
                                         !.file_hash = loc[p].file_hash])
       \/ /\ ~check_file_processed(ledger, loc[p].file_hash)
          /\ pc' = [pc EXCEPT ![p] = "download"]
          /\ loc' = [loc EXCEPT ![p].gate_checked = TRUE]
          /\ UNCHANGED result
    /\ UNCHANGED <<bucket, now, starts, ledger, schemaVersions, rawTable, layerVars, retryVars, processMetadata, sensorVars>>

\* s3.download_csv_as_df: a second download of the object (lines 253-260)
Download(p) ==
    /\ pc[p] = "download"
    /\ \/ /\ loc' = [loc EXCEPT ![p].df = bucket[loc[p].key].content]
          /\ pc' = [pc EXCEPT ![p] = "check_schema"]
          /\ UNCHANGED result
       \/ Except(p, "s3 error")
    /\ UNCHANGED <<bucket, now, starts, ledger, schemaVersions, rawTable, layerVars, retryVars, processMetadata, sensorVars>>

\* _detect_schema and _check_schema_change (lines 263-264)
CheckSchema(p) ==
    /\ pc[p] = "check_schema"
    /\ \/ LET latest == LatestVersions(schemaVersions, TableName(loc[p].asset)) IN
          \E prev \in (IF latest = {} THEN {NoSchemaRow} ELSE latest) :
            LET r == check_schema_change(prev, detect_schema(loc[p].df)) IN
              /\ loc' = [loc EXCEPT ![p].has_changed = r.has_changed,
                                    ![p].version = r.version,
                                    ![p].prev_id = r.prev_id]
              /\ pc' = [pc EXCEPT ![p] = IF r.has_changed THEN "record_schema" ELSE "append"]
              /\ UNCHANGED result
       \/ Except(p, "lock conflict")
    /\ UNCHANGED <<bucket, now, starts, ledger, schemaVersions, rawTable, layerVars, retryVars, processMetadata, sensorVars>>

\* _record_schema_version when has_changed (lines 266-269)
RecordSchema(p) ==
    /\ pc[p] = "record_schema"
    /\ \/ /\ schemaVersions' = record_schema_version(schemaVersions, Uuid4,
                    TableName(loc[p].asset), detect_schema(loc[p].df), loc[p].version,
                    loc[p].prev_id,
                    IF loc[p].version = 1 THEN "Initial schema" ELSE "Schema change detected")
          /\ pc' = [pc EXCEPT ![p] = "append"]
          /\ UNCHANGED <<loc, result>>
       \/ /\ Except(p, "lock conflict")
          /\ UNCHANGED schemaVersions
    /\ UNCHANGED <<bucket, now, starts, ledger, rawTable, layerVars, retryVars, processMetadata, sensorVars>>

\* CREATE TABLE IF NOT EXISTS ... AS SELECT * FROM df WHERE 1=0, then
\* INSERT INTO ... SELECT * FROM df (lines 272-279), on a connection that is
\* opened without the lock retry
AppendRaw(p) ==
    /\ pc[p] = "append"
    /\ LET t == TableName(loc[p].asset) IN
         \/ /\ rawTable' = [rawTable EXCEPT ![t] = insert_into(rawTable[t],
                       [file_hash |-> loc[p].file_hash, source_file |-> loc[p].key,
                        content |-> loc[p].df, nrows |-> NumRows(loc[p].df)])]
            /\ pc' = [pc EXCEPT ![p] = "record"]
            /\ UNCHANGED <<loc, result>>
         \/ /\ Except(p, "lock conflict")
            /\ UNCHANGED rawTable
    /\ UNCHANGED <<bucket, now, starts, ledger, schemaVersions, layerVars, retryVars, processMetadata, sensorVars>>

\* _record_file_metadata(..., row_count) on the success path (lines 282-296)
RecordCompleted(p) ==
    /\ pc[p] = "record"
    /\ \/ /\ ledger' = record_file_metadata(ledger, Uuid4, <<"landing", loc[p].key>>,
                    loc[p].key, loc[p].asset, loc[p].file_hash, loc[p].file_size,
                    NumRows(loc[p].df), now, "completed", "")
          /\ Return(p, [NoResult EXCEPT !.status = "ingested",
                             !.file_hash = loc[p].file_hash,
                             !.row_count = NumRows(loc[p].df),
                             !.schema_version = loc[p].version,
                             !.record_calls = Append(loc[p].record_calls, "completed")])
       \/ \* the write lock is not obtained within the retries
          /\ pc' = [pc EXCEPT ![p] = "except"]
          /\ loc' = [loc EXCEPT ![p].error = "lock conflict",
                                ![p].record_calls = Append(loc[p].record_calls, "completed")]
          /\ UNCHANGED <<ledger, result>>
    /\ UNCHANGED <<bucket, now, starts, schemaVersions, rawTable, layerVars, retryVars, processMetadata, sensorVars>>

\* the except clause: _record_file_metadata(..., 0, "failed", str(e)); raise
\* (lines 298-302)
RecordFailed(p) ==
    /\ pc[p] = "except"
    /\ \/ /\ ledger' = record_file_metadata(ledger, Uuid4, <<"landing", loc[p].key>>,
                    loc[p].key, loc[p].asset, loc[p].file_hash, loc[p].file_size,
                    0, now, "failed", loc[p].error)
          /\ Return(p, [NoResult EXCEPT !.status = "raised",
                             !.file_hash = loc[p].file_hash,
                             !.error = loc[p].error,
                             !.record_calls = Append(loc[p].record_calls, "failed")])
       \/ \* the write lock is not obtained within the retries: this exception
          \* leaves the except clause instead of the original one
          /\ UNCHANGED ledger
          /\ Return(p, [NoResult EXCEPT !.status = "raised_in_except",
                             !.file_hash = loc[p].file_hash,
                             !.error = "lock conflict",
                             !.record_calls = Append(loc[p].record_calls, "failed")])
    /\ UNCHANGED <<bucket, now, starts, schemaVersions, rawTable, layerVars, retryVars, processMetadata, sensorVars>>

\* one statement of one invocation that is under way
Step(p) ==
    \/ GetFileHash(p)
    \/ Gate(p)
    \/ Download(p)
    \/ CheckSchema(p)
    \/ RecordSchema(p)
    \/ AppendRaw(p)
    \/ RecordCompleted(p)
    \/ RecordFailed(p)

\* an upload made while no invocation is under way
UploadBetweenRuns(k, c) ==
    /\ \A q \in Procs : pc[q] = "idle"
    /\ Upload(k, c)

\* invocations may overlap; the bucket changes between them
NextOverlap ==
    \/ \E k \in Keys, c \in Contents : UploadBetweenRuns(k, c)
    \/ \E p \in Procs, a \in Assets : ListFiles(p, a)
    \/ \E p \in Procs : Step(p)

SpecOverlap == Init /\ [][NextOverlap]_vars

\* invocations run one after the other; the bucket changes at any time
ListFilesAlone(p, a) ==
    /\ \A q \in Procs : pc[q] = "idle"
    /\ ListFiles(p, a)

Next ==
    \/ \E k \in Keys, c \in Contents : Upload(k, c)
    \/ \E p \in Procs, a \in Assets : ListFilesAlone(p, a)
    \/ \E p \in Procs : Step(p)

Spec == Init /\ [][Next]_vars

\* the asset is materialized again and again (the daily schedule and the
\* sensor start a run each); a run starts when the one before has ended
InvokeRepeatedly(p, a) ==
    /\ \A q \in Procs : pc[q] = "idle"
    /\ Slot(p) = 1
    /\ ListAndSelect(p, a)
    /\ UNCHANGED <<bucket, now, starts, ledger, schemaVersions, rawTable, layerVars, retryVars, processMetadata, sensorVars>>

\* a statement of the invocation that does not raise
StepOK(p) ==
    /\ Step(p)
    /\ pc'[p] # "except"

NextRepeated ==
    \/ \E k \in Keys, c \in Contents : UploadBetweenRuns(k, c)
    \/ \E p \in Procs, a \in Assets : InvokeRepeatedly(p, a)
    \/ \E p \in Procs : StepOK(p)

\* no statement fails, every invocation under way goes on, and a new
\* invocation starts whenever none is under way
SpecRepeated ==
    /\ Init
    /\ [][NextRepeated]_vars
    /\ WF_vars(\E p \in Procs, a \in Assets : InvokeRepeatedly(p, a))
    /\ \A p \in Procs : WF_vars(StepOK(p))

\* the runner never raises, whatever the return code
run_dbt_command_never_raises(returncode, allow) ==
    [raised |-> FALSE, error |-> "", returncode |-> returncode]

\* _run_dbt_command: the subprocess ended with returncode; a non-zero return
\* code raises with the captured stderr and stdout unless allow_failure
run_dbt_command(returncode, allow) ==
    [raised |-> returncode # 0 /\ ~allow,
     error |-> IF returncode # 0 /\ ~allow
               THEN "dbt command failed: stderr stdout" ELSE "",
     returncode |-> returncode]

\* the decorator arguments of DuckDBResource.execute
max_retries == 5

delay == 1

\* the mutating database calls the pipeline issues
MutatingCalls ==
    {"ledger_upsert", "schema_version_insert", "raw_table_append",
     "initialize_schemas", "initialize_metadata_tables"}

\* the calls made with duckdb.execute, the only decorated method
through_execute(call) == call \in {"ledger_upsert", "schema_version_insert"}

\* how a call of the wrapped function ends: it returns, duckdb.IOException
\* "Could not set lock ...", another duckdb.IOException, another exception
Outcomes == {"ok", "lock", "io_error", "error"}

\* a lock conflict is retried on every attempt, the last included
retry_on_lock_handler_every_attempt(outcome, attempt) ==
    IF outcome = "lock"
    THEN [again |-> TRUE, wait_time |-> delay * (2 ^ attempt)]
    ELSE [again |-> FALSE, wait_time |-> 0]

\* the wait grows by the delay instead of doubling
retry_on_lock_handler_linear(outcome, attempt) ==
    IF outcome = "lock" /\ attempt < max_retries - 1
    THEN [again |-> TRUE, wait_time |-> delay * (attempt + 1)]
    ELSE [again |-> FALSE, wait_time |-> 0]

\* the except clause of the wrapper: retry after a wait, or re-raise
retry_on_lock_handler(outcome, attempt) ==
    IF outcome = "lock" /\ attempt < max_retries - 1
    THEN [again |-> TRUE, wait_time |-> delay * (2 ^ attempt)]
    ELSE [again |-> FALSE, wait_time |-> 0]

\* -------------------------------------------------------- the layer assets
\* One invocation of a layer asset at a time, one action per query or runner
\* command.  Every read of the existence check and of the detector may raise
\* (the database file is locked by a writer of another run); the code catches
\* that.  The row count queries after a build are taken to succeed.

\* the rows of raw tables as the layer assets see them: an ingestion attempt
\* of another run appended a batch (lines 272-279 of raw_layer)
RawIngested(c) ==
    /\ Len(rawTable["raw_accounts"]) < MaxAppends
    /\ rawTable' = [rawTable EXCEPT !["raw_accounts"] = insert_into(@,
                       [file_hash |-> Md5(c), source_file |-> KeyOrder[1],
                        content |-> c, nrows |-> NumRows(c)])]
    /\ UNCHANGED <<ingestVars, layerVars, retryVars, processMetadata, sensorVars>>

\* the layer asset ends: with a MaterializeResult or with an exception
LayReturn(res) ==
    /\ layResult' = [layResult EXCEPT ![lay.layer] = res]
    /\ lay' = NoLay

\* how many rows the relation holds that the detector of a layer counts
SourceRows(layer, tbls, rt) ==
    IF layer = "structured" THEN Cardinality(RawRows(rt))
    ELSE Cardinality(tbls["str_accounts"].keys)

\* the row count the result reports about the keyed table of the layer
CountRows(layer, tbls) ==
    CASE layer = "structured" -> Cardinality(tbls["str_accounts"].keys)
      [] layer = "curated"    -> Cardinality(tbls["fact_customer_balances"].keys)
      [] OTHER                -> Cardinality(tbls["account_summary"].keys)

\* every layer asset begins with the existence check
first_step_exists(layer) == "exists"

\* the first statement of a layer asset: run_dbt_structured and
\* run_dbt_curated call _tables_exist, run_dbt_access calls the build
first_step(layer) == IF layer = "access" THEN "build" ELSE "exists"

\* a layer asset is invoked; run_dbt_access goes straight to its build
LayStart(layer) ==
    /\ lay.pc = "idle"
    /\ layerStarts < MaxLayerRuns
    /\ layerStarts' = layerStarts + 1
    /\ lay' = [NoLay EXCEPT !.layer = layer, !.pc = first_step(layer)]
    /\ UNCHANGED <<ingestVars, rawTable, tables, layResult, exportVars, retryVars, processMetadata, sensorVars>>

\* tables_exist = _tables_exist(duckdb)
LayTablesExist ==
    /\ lay.pc = "exists"
    /\ \E fail \in BOOLEAN :
         lay' = [lay EXCEPT !.tables_exist = tables_exist(lay.layer, tables, fail),
                            !.pc = "delta"]
    /\ UNCHANGED <<ingestVars, rawTable, tables, layerStarts, layResult, exportVars, retryVars, processMetadata, sensorVars>>

\* the detector, and the choice between skipping and building
LayCheckNew ==
    /\ lay.pc = "delta"
    /\ \E fail1 \in BOOLEAN, fail2 \in BOOLEAN :
         LET new_count ==
                 IF lay.layer = "structured"
                 THEN check_for_new_raw_data(rawTable["raw_accounts"],
                                             tables["str_accounts"], fail1, fail2)
                 ELSE check_for_new_structured_data(tables["str_accounts"],
                                             tables["fact_customer_balances"], fail1, fail2)
             has_new_data == new_count > 0
             path ==
                 IF lay.layer = "structured"
                 THEN detector_path(rawTable["raw_accounts"] # <<>>,
                                    tables["str_accounts"].exists, fail1, fail2)
                 ELSE detector_path(tables["str_accounts"].exists,
                                    tables["fact_customer_balances"].exists, fail1, fail2)
         IN lay' = [lay EXCEPT !.new_count = new_count,
                        !.has_new_data = has_new_data,
                        !.path = path,
                        !.pc = IF skip_dbt_run(lay.tables_exist, has_new_data) THEN "skip"
                               ELSE IF lay.layer = "structured" THEN "deps"
                               ELSE "build",
                        !.full_refresh = ~lay.tables_exist]
    /\ UNCHANGED <<ingestVars, rawTable, tables, layerStarts, layResult, exportVars, retryVars, processMetadata, sensorVars>>

\* the skip branch: the current counts are read and a result is returned
LaySkip ==
    /\ lay.pc = "skip"
    /\ LayReturn([NoLayResult EXCEPT !.status = "skipped",
                                      !.rows = CountRows(lay.layer, tables),
                                      !.new_found = 0,
                                      !.dbt_run = FALSE,
                                      !.cmds = lay.cmds])
    /\ UNCHANGED <<ingestVars, rawTable, tables, layerStarts, exportVars, retryVars, processMetadata, sensorVars>>

\* _run_dbt_command(["dbt", "deps"]) of run_dbt_structured: a non-zero
\* return code raises
LayDeps ==
    /\ lay.pc = "deps"
    /\ \/ /\ lay' = [lay EXCEPT !.cmds = Append(@, "deps"), !.pc = "build"]
          /\ UNCHANGED layResult
       \/ LayReturn([NoLayResult EXCEPT !.status = "raised",
                                         !.error = run_dbt_command(1, FALSE).error,
                                         !.cmds = Append(lay.cmds, "deps")])
    /\ UNCHANGED <<ingestVars, rawTable, tables, layerStarts, exportVars, retryVars, processMetadata, sensorVars>>

\* _run_dbt_command(dbt_command): the build.  It succeeds only when its
\* sources are there; when it fails it built nothing or only its first model
LayBuild ==
    /\ lay.pc = "build"
    /\ \E returncode \in {0, 1} :
         LET cmd == IF lay.full_refresh THEN "run_full" ELSE "run"
             built == dbt_run(lay.layer, lay.full_refresh \/ lay.layer = "access",
                              tables, rawTable["raw_accounts"])
             first == CHOOSE t \in TargetTables(lay.layer) :
                          t \in {"str_customers", "dim_customer", "account_summary"}
             build_result == run_dbt_command(returncode, FALSE)
         IN
         /\ IF returncode = 0
            THEN /\ SourcesExist(lay.layer, tables, rawTable["raw_accounts"])
                 /\ tables' = built
            ELSE \/ UNCHANGED tables
                 \/ /\ SourcesExist(lay.layer, tables, rawTable["raw_accounts"])
                    /\ lay.layer # "access"
                    /\ tables' = [tables EXCEPT ![first] = built[first]]
         /\ summaryCheck' = IF lay.layer = "access" /\ returncode = 0
                            THEN "pending" ELSE summaryCheck
         /\ IF build_result.raised
            THEN LayReturn([NoLayResult EXCEPT !.status = "raised",
                                                !.error = build_result.error,
                                                !.cmds = Append(lay.cmds, cmd)])
            ELSE /\ lay' = [lay EXCEPT !.cmds = Append(@, cmd), !.pc = "counts",
                                       !.build_returncode = build_result.returncode,
                                       !.source_rows = SourceRows(lay.layer, tables,
                                                           rawTable["raw_accounts"])]
                 /\ UNCHANGED layResult
    /\ UNCHANGED <<ingestVars, rawTable, layerStarts, accessBucket, exportResult, retryVars, processMetadata, sensorVars>>

\* the row counts read after the build
LayCounts ==
    /\ lay.pc = "counts"
    /\ lay' = [lay EXCEPT !.rows = CountRows(lay.layer, tables), !.pc = "test"]
    /\ UNCHANGED <<ingestVars, rawTable, tables, layerStarts, layResult, exportVars, retryVars, processMetadata, sensorVars>>

\* _run_dbt_command(["dbt", "test", ...]): with allow_failure=True in the
\* structured and curated layers; in the access layer a non-zero return
\* code raises
LayTest ==
    /\ lay.pc = "test"
    /\ \E returncode \in {0, 1} :
         LET test_result == run_dbt_command(returncode, allow_failure(lay.layer))
         IN
         /\ summaryCheck' = IF lay.layer # "access" THEN summaryCheck
                            ELSE IF returncode = 0 THEN "passed" ELSE "failed"
         /\ IF test_result.raised
               THEN LayReturn([NoLayResult EXCEPT !.status = "raised",
                                                   !.error = test_result.error,
                                                   !.test_returncode = returncode,
                                                   !.cmds = Append(lay.cmds, "test")])
               ELSE LayReturn([NoLayResult EXCEPT !.status = "processed",
                                                   !.rows = lay.rows,
                                                   !.new_found = lay.new_count,
                                                   !.dbt_run = (lay.layer # "access"),
                                                   !.tests_passed = (test_result.returncode = 0),
                                                   !.test_returncode = test_result.returncode,
                                                   !.source_rows = lay.source_rows,
                                                   !.cmds = Append(lay.cmds, "test")])
    /\ UNCHANGED <<ingestVars, rawTable, tables, layerStarts, accessBucket, exportResult, retryVars, processMetadata, sensorVars>>

\* row_count = len(df)
export_row_count(df) == Cardinality(df.keys)

\* the export uploads whatever it fetched, an empty table included
export_uploads_always(row_count) == TRUE

\* `if row_count == 0: return ... "No data to export"`; otherwise the upload
export_uploads(row_count) == row_count # 0

\* export_account_summary: the rows of access.account_summary are fetched
\* and, unless there is none, uploaded as account_summary.csv.  The query
\* raises when the table is not there: nothing is uploaded, no result returned
Export ==
    /\ lay.pc = "idle"
    /\ LET df == tables["account_summary"]
           row_count == export_row_count(df)
       IN IF ~df.exists
          THEN UNCHANGED <<accessBucket, exportResult>>
          ELSE IF export_uploads(row_count)
          THEN /\ accessBucket' = [uploaded |-> TRUE, keys |-> df.keys,
                                   check |-> summaryCheck]
               /\ exportResult' = [status |-> "exported", row_count |-> row_count,
                                   uploads |-> 1]
          ELSE /\ exportResult' = [status |-> "No data to export",
                                   row_count |-> row_count, uploads |-> 0]
               /\ UNCHANGED accessBucket
    /\ UNCHANGED <<ingestVars, rawTable, tables, layerStarts, lay, layResult, summaryCheck, retryVars, processMetadata, sensorVars>>

\* the layer assets, invoked in any order, while other runs ingest
NextLayers ==
    \/ \E c \in Contents : RawIngested(c)
    \/ \E l \in Layers : LayStart(l)
    \/ LayTablesExist
    \/ LayCheckNew
    \/ LaySkip
    \/ LayDeps
    \/ LayBuild
    \/ LayCounts
    \/ LayTest
    \/ Export

SpecLayers == Init /\ [][NextLayers]_vars

\* ------------------------------------------------- the lock-retry executor
\* One mutating database call at a time, one action per call of the wrapped
\* function and one per time.sleep.

\* ledger upsert, schema version insert: duckdb.execute; the others open a
\* connection with get_connection() and call conn.execute on it
ExecuteStart(call) ==
    /\ retry.pc = "idle"
    /\ executes < MaxExecutes
    /\ executes' = executes + 1
    /\ retry' = [NoRetry EXCEPT !.pc = "try", !.call = call]
    /\ UNCHANGED <<ingestVars, rawTable, tables, layerStarts, lay, layResult, exportVars, retryResult, processMetadata, sensorVars>>

\* the call ends: it returns, or the exception goes to the caller
ExecuteEnd(status, outcome) ==
    /\ retryResult' = [status |-> status, call |-> retry.call,
                       invocations |-> retry.invocations + 1,
                       waits |-> retry.waits, outcome |-> outcome]
    /\ retry' = NoRetry

\* func(*args, **kwargs) is called and ends with outcome: inside the loop of
\* the wrapper, after the loop (line 47), or without any wrapper
ExecuteTry(outcome) ==
    /\ retry.pc = "try"
    /\ LET handler == retry_on_lock_handler(outcome, retry.attempt)
           status == IF outcome = "ok" THEN "returned" ELSE "raised"
       IN IF ~through_execute(retry.call) \/ retry.attempt >= max_retries
          THEN ExecuteEnd(status, outcome)
          ELSE IF outcome \in {"lock", "io_error"} /\ handler.again
          THEN retry' = [retry EXCEPT !.pc = "sleep",
                                      !.invocations = @ + 1,
                                      !.outcome = outcome,
                                      !.wait_time = handler.wait_time]
               /\ UNCHANGED retryResult
          ELSE ExecuteEnd(status, outcome)
    /\ UNCHANGED <<ingestVars, rawTable, tables, layerStarts, lay, layResult, exportVars, executes, processMetadata, sensorVars>>

\* time.sleep(wait_time); continue
ExecuteSleep ==
    /\ retry.pc = "sleep"
    /\ retry' = [retry EXCEPT !.pc = "try",
                              !.waits = Append(@, retry.wait_time),
                              !.attempt = @ + 1]
    /\ UNCHANGED <<ingestVars, rawTable, tables, layerStarts, lay, layResult, exportVars, executes, retryResult, processMetadata, sensorVars>>

NextRetry ==
    \/ \E call \in MutatingCalls : ExecuteStart(call)
    \/ \E outcome \in Outcomes : ExecuteTry(outcome)
    \/ ExecuteSleep

SpecRetry == Init /\ [][NextRetry]_vars

\* ------------------------------------------------------- the file sensor
\* put_object on the landing bucket, as the sensor comes to see it
SensorPut(k) ==
    /\ sensorClock < MaxPuts
    /\ sensorClock' = sensorClock + 1
    /\ landing' = [landing EXCEPT ![k] = sensorClock + 1]
    /\ UNCHANGED <<ingestVars, rawTable, layerVars, retryVars, processMetadata, cursor, sensorEvals, sensorOut>>

\* one evaluation of new_file_sensor; the listing may raise
SensorTick ==
    /\ sensorEvals < MaxEvals
    /\ sensorEvals' = sensorEvals + 1
    /\ \E raises \in BOOLEAN :
         LET r == new_file_sensor(raises, sensor_list_files(landing), cursor)
             pair == cursor_key_of(latest_of_kind(sensor_list_files(landing), "accounts"),
                                   latest_of_kind(sensor_list_files(landing), "customers"))
             asked == Cardinality({i \in DOMAIN r.yields : r.yields[i].type = "RunRequest"})
         IN /\ sensorOut' = [yields |-> r.yields, raised |-> r.raised,
                             listing_raised |-> raises, pair |-> pair,
                             requests |-> IF pair = sensorOut.pair
                                          THEN sensorOut.requests + asked ELSE asked]
            /\ cursor' = r.cursor
    /\ UNCHANGED <<ingestVars, rawTable, layerVars, retryVars, processMetadata, landing, sensorClock>>

NextSensor ==
    \/ \E k \in SensorKeys : SensorPut(k)
    \/ SensorTick

SpecSensor == Init /\ [][NextSensor]_vars

\* ------------------------------------------------------ derived quantities
\* the rows of a ledger with one content hash
EntriesOf(led, h) == {e \in led : e.file_hash = h}

\* the rows of a ledger with one content hash that are completed
CompletedOf(led, h) == {e \in led : e.file_hash = h /\ e.processing_status = "completed"}

\* the content hashes of everything that can be uploaded
Hashes == {Md5(c) : c \in Contents}

\* how many batches carrying _file_hash = h were appended to a raw table
AppendsOf(t, h) == Cardinality({i \in DOMAIN rawTable[t] : rawTable[t][i].file_hash = h})

\* the database part of the state
db == <<ledger, schemaVersions, rawTable>>

\* invocation p takes one of its steps before the try block
PreTryStep(p) ==
    \/ pc[p] = "idle" /\ starts' # starts /\ result'[p] # result[p]
    \/ pc[p] = "idle" /\ pc'[p] = "hash"
    \/ pc[p] = "hash" /\ pc'[p] = "gate"
    \/ pc[p] = "gate" /\ pc'[p] # "gate"

\* ------------------------------------------------------------------ claims

\* C1: idempotence of raw ingestion.  Once content with hash h is recorded
\* completed, an invocation that reaches the gate with hash h (whatever key
\* and modification time its object has) ends there with the outcome
\* "skipped" and file_hash = h; none of its steps writes the raw table, the
\* ledger or the schema chain, and the ledger holds exactly one completed
\* entry for h.
C1_IdempotentSkip ==
    [][\A p \in Procs :
         /\ PreTryStep(p) => db' = db
         /\ (pc[p] = "gate" /\ pc'[p] # "gate" /\ CompletedOf(ledger, loc[p].file_hash) # {}) =>
               /\ pc'[p] = "idle"
               /\ result'[p].status = "skipped"
               /\ result'[p].file_hash = loc[p].file_hash
               /\ Cardinality(CompletedOf(ledger', loc[p].file_hash)) = 1]_vars

\* C1 witness: an invocation was skipped although the completed entry of its
\* hash was ingested under another key than the one now selected
C1_Witness ==
    \E p \in Procs, e \in ledger :
        /\ result[p].status = "skipped"
        /\ e.file_hash = result[p].file_hash
        /\ e.processing_status = "completed"
        /\ e.file_name # LatestFile(bucket, list_files(bucket, e.file_type))

\* C2: the rows carrying _file_hash = h are appended to a raw table by at
\* most one attempt, over invocations that run one after the other
C2_AppendedAtMostOnce == \A t \in Tables, h \in Hashes : AppendsOf(t, h) <= 1

\* C3: two invocations that raced on an object with content hash h and both
\* ended without an exception appended the rows of that object exactly once
C3_RacingAppendedOnce ==
    \A h \in Hashes, t \in Tables :
        (\A p \in Procs : /\ result[p].status \in {"ingested", "skipped"}
                          /\ result[p].file_hash = h)
            => AppendsOf(t, h) = 1

\* C4: the ledger holds at most one entry per content_hash (hence at most one
\* completed entry per content_hash)
C4_OneEntryPerHash ==
    \A e1 \in ledger, e2 \in ledger : e1.file_hash = e2.file_hash => e1 = e2

\* C4 witness: two overlapping invocations both called recordAttempt for the
\* same hash, and the ledger holds an entry for it
C4_Witness ==
    \E h \in Hashes :
        /\ \A p \in Procs : result[p].file_hash = h /\ result[p].record_calls # <<>>
        /\ EntriesOf(ledger, h) # {}

\* C5: once the ledger entry of a hash is completed it stays completed
C5_CompletedStays ==
    [][\A h \in Hashes :
         CompletedOf(ledger, h) # {} => CompletedOf(ledger', h) # {}]_vars

\* C6: the gate returns true (the invocation is skipped) exactly when the
\* ledger holds an entry with the hash and status completed, false when the
\* entry is absent or failed, and it changes no state
C6_GateIffCompleted ==
    [][\A p \in Procs :
         (pc[p] = "gate" /\ pc'[p] # "gate") =>
            /\ (pc'[p] = "idle" /\ result'[p].status = "skipped")
                  <=> (\E e \in ledger : /\ e.file_hash = loc[p].file_hash
                                         /\ e.processing_status = "completed")
            /\ (pc'[p] = "download")
                  <=> (\A e \in ledger : e.file_hash = loc[p].file_hash
                                           => e.processing_status \in {"failed", "pending"})
            /\ UNCHANGED <<bucket, ledger, schemaVersions, rawTable>>]_vars

\* C6 witness: the gate let an invocation through whose hash has a failed entry
C6_Witness ==
    \E p \in Procs, e \in ledger :
        /\ pc[p] = "download"
        /\ e.file_hash = loc[p].file_hash
        /\ e.processing_status = "failed"

\* C7: an attempt is past the gate check before it writes, and an attempt that
\* passed the gate has called recordAttempt exactly once when it ends: with
\* completed if it succeeded, with failed if it raised
C7_GateThenRecordOnce ==
    \A p \in Procs :
        /\ pc[p] \in {"download", "check_schema", "record_schema", "append", "record", "except"}
              => loc[p].gate_checked
        /\ result[p].status = "ingested" => result[p].record_calls = <<"completed">>
        /\ result[p].status \in {"raised", "raised_in_except"}
              => result[p].record_calls = <<"failed">>

\* C8 as stated: whenever an attempt raised after passing the gate, the
\* exception of the try block is the one re-raised and the ledger entry of
\* its hash has status failed with that error message
C8_RaisedIsRecordedFailed ==
    \A p \in Procs :
        result[p].status \in {"raised", "raised_in_except"} =>
            /\ result[p].status = "raised"
            /\ \E e \in ledger : /\ e.file_hash = result[p].file_hash
                                 /\ e.processing_status = "failed"
                                 /\ e.error_message = result[p].error

\* C8 (amended): when the except clause's recordAttempt returns, the ledger
\* entry of the hash has status failed with the error message and the
\* exception of the try block is re-raised; when that call raises, the ledger
\* is left as it was and the call's own exception propagates.  A later
\* attempt for a hash whose entry is failed is not skipped by the gate, and
\* when it succeeds the same single entry becomes completed.
C8_FailedThenRetried ==
    [][\A p \in Procs :
         LET h == loc[p].file_hash IN
         /\ (pc[p] = "except" /\ pc'[p] = "idle") =>
               \/ /\ result'[p].status = "raised"
                  /\ result'[p].error = loc[p].error
                  /\ \E e \in ledger' : /\ e.file_hash = h
                                        /\ e.processing_status = "failed"
                                        /\ e.error_message = loc[p].error
               \/ /\ result'[p].status = "raised_in_except"
                  /\ ledger' = ledger
         /\ (/\ pc[p] = "gate" /\ pc'[p] # "gate"
             /\ \E e \in ledger : e.file_hash = h /\ e.processing_status = "failed")
               => pc'[p] = "download"
         /\ (pc[p] = "record" /\ pc'[p] = "idle") =>
               \A e \in EntriesOf(ledger, h) :
                  EntriesOf(ledger', h) =
                     {[e EXCEPT !.processing_status = "completed",
                                !.error_message = "",
                                !.ingestion_timestamp = now]}]_vars

\* C8 witness: an attempt succeeded for a hash whose ledger entry was created
\* by an earlier, failed attempt (the entry still carries that attempt's
\* row_count of 0)
C8_Witness ==
    \E p \in Procs, e \in ledger :
        /\ result[p].status = "ingested"
        /\ e.file_hash = result[p].file_hash
        /\ e.processing_status = "completed"
        /\ e.row_count # result[p].row_count

\* the columns of a ledger row that an upsert on an existing hash keeps
Kept(e) == <<e.file_id, e.file_path, e.file_name, e.file_type, e.file_hash,
             e.file_size_bytes, e.row_count>>

\* C9: recordAttempt for a hash that already has an entry keeps the entry's
\* file_id, path, name, type, size and row_count, and adds no entry
C9_UpsertFrame ==
    [][/\ \A e \in ledger : \E e2 \in ledger' : Kept(e2) = Kept(e)
       /\ \A e2 \in ledger' :
             (\E e \in ledger : e.file_hash = e2.file_hash)
                => (\E e \in ledger : Kept(e) = Kept(e2))]_vars

\* C9 witness: an entry inserted by a failed attempt (row_count 0) was later
\* set to completed by an upsert
C9_Witness ==
    \E e \in ledger : e.processing_status = "completed" /\ e.row_count = 0

\* a schema as the ordered list of its (name, type, nullable) triples
Triples(schema) == [i \in DOMAIN schema |-> <<schema[i].name, schema[i].type, schema[i].nullable>>]

\* C10: schema stability.  A check of a schema equal to the latest version of
\* the table reports changed = false with that version's number and nothing
\* is written; a check of a different schema is followed by the write of
\* exactly one new version, numbered latest + 1 and linked to the schema_id
\* of the latest version.  The schema chain changes in no other way.
C10_SchemaStability ==
    [][\A p \in Procs :
         LET t == TableName(loc[p].asset)
             latest == LatestVersions(schemaVersions, t)
             observed == Triples(detect_schema(loc[p].df))
             same == \E r \in latest : Triples(JsonLoads(r.column_definitions)) = observed
         IN
         /\ (pc[p] = "check_schema" /\ pc'[p] \in {"append", "record_schema"}) =>
               /\ schemaVersions' = schemaVersions
               /\ same => /\ pc'[p] = "append"
                          /\ loc'[p].has_changed = FALSE
                          /\ \A r \in latest : loc'[p].version = r.schema_version
               /\ ~same => /\ pc'[p] = "record_schema"
                           /\ loc'[p].has_changed = TRUE
         /\ (pc[p] = "record_schema" /\ pc'[p] = "append") =>
               /\ ~same
               /\ \E row \in schemaVersions' \ schemaVersions :
                     /\ schemaVersions' = schemaVersions \cup {row}
                     /\ row.table_name = t
                     /\ Triples(JsonLoads(row.column_definitions)) = observed
                     /\ latest = {} => row.schema_version = 1 /\ row.previous_version_id = 0
                     /\ \A r \in latest : /\ row.schema_version = r.schema_version + 1
                                          /\ row.previous_version_id = r.schema_id
         /\ (pc[p] # "record_schema" /\ \A q \in Procs : pc[q] # "record_schema")
               => schemaVersions' = schemaVersions]_vars

\* C10 witness: a second version was written for a table and links to the
\* first, and the attempt that observed it went on to ingest its rows
C10_Witness ==
    \E r1 \in schemaVersions, r2 \in schemaVersions, p \in Procs :
        /\ r1.table_name = r2.table_name
        /\ r1.schema_version = 1
        /\ r2.schema_version = 2
        /\ r2.previous_version_id = r1.schema_id
        /\ result[p].status = "ingested"
        /\ result[p].schema_version = 2

\* the rows of the schema chain of one table
ChainOf(rows, t) == {r \in rows : r.table_name = t}

\* C11: over invocations that do not overlap, the versions recorded for a
\* table are exactly 1..n, each once; version 1 has no previous version,
\* every version v > 1 links to the schema_id of version v - 1 of the same
\* table; and no recorded row is ever modified or deleted
C11_ChainContiguous ==
    /\ [](\A t \in Tables :
            LET chain == ChainOf(schemaVersions, t) IN
            /\ {r.schema_version : r \in chain} = 1..Cardinality(chain)
            /\ \A r \in chain :
                  /\ r.schema_version = 1 => r.previous_version_id = 0
                  /\ r.schema_version > 1 =>
                        \E q \in chain : /\ q.schema_version = r.schema_version - 1
                                         /\ q.schema_id = r.previous_version_id)
    /\ [][schemaVersions \subseteq schemaVersions']_vars

\* C11 witness: a table has two versions, the second written by an attempt
\* that then failed
C11_Witness ==
    \E t \in Tables, p \in Procs :
        /\ Cardinality(ChainOf(schemaVersions, t)) = 2
        /\ result[p].status = "raised"
        /\ pc[p] = "idle"
        /\ \A q \in Procs : result[q].status # "ingested"

C13_NoVersionWithoutAppend ==
    [][\A p \in Procs :
         (pc[p] = "append" /\ pc'[p] = "except") =>
            schemaVersions' = loc[p].chain_before]_vars

\* ------------------------------------------------- claims about the layers

\* the join keys of the rows of a raw table
RawKeys(rt) == {Trim(CellAt(rt, pos)) : pos \in RawRows(rt)}

\* the join keys of the savings accounts of str_accounts
SavingsKeys(tbl) == {k \in tbl.keys : AccountType(k) = "savings"}

\* C14 as stated: with N the number of distinct keys of the source and M the
\* number of them the target holds, the detector returns new_count = N - M
\* and has_new = (N > M); when the target does not exist, new_count = N
C14_DeltaIsKeyDifference ==
    [][(lay.pc = "delta" /\ lay'.pc # "delta") =>
         LET source == IF lay.layer = "structured" THEN RawKeys(rawTable["raw_accounts"])
                       ELSE SavingsKeys(tables["str_accounts"])
             target == IF lay.layer = "structured" THEN tables["str_accounts"]
                       ELSE tables["fact_customer_balances"]
             N == Cardinality(source)
             M == Cardinality(source \cap target.keys)
         IN /\ target.exists => lay'.new_count = N - M /\ lay'.has_new_data = (N > M)
            /\ ~target.exists => lay'.new_count = N]_vars

\* C14 (amended): the detector returns the number of source ROWS (raw rows;
\* savings rows of str_accounts in the curated layer) whose join key has no
\* matching row in the target when its NOT EXISTS query returns, which needs
\* source and target to exist; when that query raises it returns the number
\* of all those source rows, and 0 when that count raises too (always so when
\* the source does not exist); has_new = (new_count > 0); it never raises
C14_DeltaCountsRows ==
    [][(lay.pc = "delta" /\ lay'.pc # "delta") =>
         LET rt == rawTable["raw_accounts"]
             structured == lay.layer = "structured"
             source_exists == IF structured THEN rt # <<>> ELSE tables["str_accounts"].exists
             target == IF structured THEN tables["str_accounts"]
                       ELSE tables["fact_customer_balances"]
             all_rows == IF structured THEN Cardinality(RawRows(rt))
                         ELSE Cardinality(SavingsKeys(tables["str_accounts"]))
             unmatched ==
                 IF structured
                 THEN Cardinality({pos \in RawRows(rt) :
                                     \A k \in target.keys : k # Trim(CellAt(rt, pos))})
                 ELSE Cardinality(SavingsKeys(tables["str_accounts"]) \ target.keys)
         IN /\ lay'.pc \in {"skip", "deps", "build"}
            /\ lay'.has_new_data = (lay'.new_count > 0)
            /\ lay'.path = "anti_join" =>
                  /\ source_exists /\ target.exists
                  /\ lay'.new_count = unmatched
                  /\ (structured /\ Cardinality(RawKeys(rt)) = Cardinality(RawRows(rt))) =>
                        lay'.new_count = Cardinality(RawKeys(rt) \ target.keys)
            /\ lay'.path = "count_all" => source_exists /\ lay'.new_count = all_rows
            /\ lay'.path = "zero" => lay'.new_count = 0
            /\ ~source_exists => lay'.path = "zero"
            /\ (source_exists /\ ~target.exists) => lay'.path \in {"count_all", "zero"}]_vars

\* C14 witness: the NOT EXISTS query found new rows in a raw table of which
\* the structured table already holds some keys
C14_Witness ==
    /\ lay.layer = "structured"
    /\ lay.path = "anti_join"
    /\ lay.new_count > 0
    /\ RawKeys(rawTable["raw_accounts"]) \cap tables["str_accounts"].keys # {}

\* every target table of a layer is in the catalog
AllExist(layer) == \A t \in TargetTables(layer) : tables[t].exists

\* the detector step of the invocation under way
DeltaStep == lay.pc = "delta" /\ lay'.pc # "delta"

\* the build step of the invocation under way, and the command it issued
BuildStep == lay.pc = "build" /\ lay'.pc # "build"

BuildCommand ==
    LET cmds == IF lay'.pc = "counts" THEN lay'.cmds ELSE layResult'[lay.layer].cmds
    IN cmds[Len(cmds)]

\* C15: mode selection in run_dbt_structured and run_dbt_curated.  When not
\* all target tables exist the runner is invoked with --full-refresh whatever
\* the delta count; when all exist and new_count = 0 the invocation is
\* skipped; when all exist and new_count > 0 the runner is invoked without
\* --full-refresh
C15_ModeSelection ==
    [][/\ DeltaStep =>
            /\ ~AllExist(lay.layer) => lay'.pc \in {"deps", "build"} /\ lay'.full_refresh
            /\ (AllExist(lay.layer) /\ lay'.new_count = 0) => lay'.pc = "skip"
            /\ (AllExist(lay.layer) /\ lay'.new_count > 0) =>
                  lay'.pc \in {"deps", "build"} /\ ~lay'.full_refresh
       /\ (BuildStep /\ lay.layer # "access") =>
            BuildCommand = IF AllExist(lay.layer) THEN "run" ELSE "run_full"]_vars

\* C16: skipping is a successful no-op.  When all target tables exist and
\* the detector reports no new work, the invocation ends with status
\* SKIPPED, new-row count 0 and dbt_run = false, having invoked no runner
\* command and changed no table
C16_SkipIsNoOp ==
    [][/\ (DeltaStep /\ AllExist(lay.layer) /\ ~lay'.has_new_data) => lay'.pc = "skip"
       /\ (lay.pc = "skip" /\ lay' # lay) =>
             /\ lay'.pc = "idle"
             /\ layResult'[lay.layer].status = "skipped"
             /\ layResult'[lay.layer].new_found = 0
             /\ ~layResult'[lay.layer].dbt_run
             /\ layResult'[lay.layer].cmds = <<>>
             /\ tables' = tables]_vars

C18_SkipsUntilUpstreamCommits ==
    [][\A l \in {"structured", "curated"} :
         (/\ lay.layer = l /\ lay.pc # "idle" /\ lay'.pc = "idle"
          /\ layResult[l].status = "processed"
          /\ SourceRows(l, tables, rawTable["raw_accounts"]) = layResult[l].source_rows) =>
               /\ layResult'[l].status = "skipped"
               /\ ~layResult'[l].dbt_run]_vars

\* C19: failure isolation on non-terminal layers.  In run_dbt_structured and
\* run_dbt_curated, when the build succeeded and the validation command
\* returned a non-zero code, the invocation completes successfully and
\* reports tests_passed = false
C19_TestFailureTolerated ==
    \A l \in {"structured", "curated"} :
        /\ layResult[l].test_returncode \notin {NotRun, 0} =>
              /\ layResult[l].status = "processed"
              /\ layResult[l].dbt_run
              /\ layResult[l].tests_passed = FALSE
              /\ layResult[l].cmds[Len(layResult[l].cmds)] = "test"
              /\ \E i \in DOMAIN layResult[l].cmds : layResult[l].cmds[i] \in {"run", "run_full"}
        /\ layResult[l].test_returncode = 0 =>
              layResult[l].status = "processed" /\ layResult[l].tests_passed

\* C19 witness: the curated layer was built and its validation failed
C19_Witness ==
    /\ layResult["curated"].test_returncode = 1
    /\ tables["fact_customer_balances"].exists

\* C20: the terminal layer is strict.  In run_dbt_access, when the build
\* succeeded and the validation command returned a non-zero code, the
\* invocation raises and emits no result: no row count, no tests_passed
C20_AccessTestFailureRaises ==
    /\ layResult["access"].test_returncode \notin {NotRun, 0} =>
          /\ layResult["access"].status = "raised"
          /\ layResult["access"].rows = 0
          /\ layResult["access"].tests_passed = FALSE
          /\ layResult["access"].cmds = <<"run", "test">>
    /\ layResult["access"].status = "processed" =>
          layResult["access"].test_returncode = 0 /\ layResult["access"].tests_passed

\* C20 witness: account_summary was built and the validation of the access
\* layer failed
C20_Witness ==
    /\ layResult["access"].test_returncode = 1
    /\ tables["account_summary"].exists

\* ------------------------------------------------------------------- C21
\* C21: a build command that returns non-zero is fatal in every layer.  The
\* build step either returned success (return code 0) and the invocation
\* goes on to read the counts, or the invocation ends at once: with an
\* exception that carries the captured output, without a validation command,
\* with no row count and no result metadata.
C21_BuildFailureFatal ==
    [][BuildStep =>
         \/ /\ lay'.pc = "counts"
            /\ lay'.build_returncode = 0
            /\ UNCHANGED layResult
         \/ /\ lay'.pc = "idle"
            /\ LET r == layResult'[lay.layer]
               IN /\ r.status = "raised"
                  /\ r.error = "dbt command failed: stderr stdout"
                  /\ \E c \in {"run", "run_full"} : r.cmds = Append(lay.cmds, c)
                  /\ \A i \in DOMAIN r.cmds : r.cmds[i] # "test"
                  /\ r.test_returncode = NotRun
                  /\ r.rows = 0 /\ r.new_found = 0 /\ r.source_rows = 0
                  /\ ~r.dbt_run /\ ~r.tests_passed]_vars

\* the build of each of the three layers has failed
C21_Witness ==
    \A l \in Layers :
      /\ layResult[l].status = "raised"
      /\ layResult[l].cmds # <<>>
      /\ layResult[l].cmds[Len(layResult[l].cmds)] \in {"run", "run_full"}

\* ------------------------------------------------------------------- C22
\* C22: a bad final report is never published: account_summary.csv in the
\* access bucket is never the upload of a table whose validation by
\* run_dbt_access had failed.
C22_BadReportNotPublished ==
    accessBucket.uploaded => accessBucket.check # "failed"

\* ------------------------------------------------------------------- C23
\* a call of the wrapped function happens in this step
TryStep == retry.pc = "try" /\ retry' # retry

\* how the call of the wrapped function in this step ended
TryOutcome == IF retry'.pc = "idle" THEN retryResult'.outcome ELSE retry'.outcome

\* C23: retry_on_lock calls the wrapped write at most max_retries times; it
\* calls it again only after a lock conflict on an attempt that is not the
\* last, returns at the first attempt that succeeds, and hands any other
\* error, and a lock conflict on the last attempt, to the caller without
\* calling the write again.
C23_BoundedRetry ==
    [][TryStep /\ through_execute(retry.call) =>
         /\ retry.invocations < max_retries
         /\ (retry'.pc = "sleep") =
               (TryOutcome = "lock" /\ retry.invocations + 1 < max_retries)
         /\ retry'.pc = "sleep" => retry'.invocations = retry.invocations + 1
         /\ retry'.pc # "sleep" =>
               /\ retry' = NoRetry
               /\ retryResult'.invocations = retry.invocations + 1
               /\ retryResult'.status =
                     IF TryOutcome = "ok" THEN "returned" ELSE "raised"]_vars

\* the write hit a lock conflict five times and the fifth was handed on; and
\* before that, or after, a write ended with another error at once
C23_Witness ==
    /\ through_execute(retryResult.call)
    /\ retryResult.status = "raised"
    /\ retryResult.outcome = "lock"
    /\ retryResult.invocations = max_retries

\* ------------------------------------------------------------------- C24
\* C24: before retry k (k = 1 .. max_retries - 1) the executor sleeps
\* delay * 2^(k-1), that is 1, 2, 4, 8, and it does not sleep after the last
\* failed attempt or after an error that is not a lock conflict.
C24_BackoffSchedule ==
    /\ \A r \in {retry, retryResult} :
         through_execute(r.call) =>
           /\ Len(r.waits) <= max_retries - 1
           /\ \A k \in DOMAIN r.waits : r.waits[k] = delay * (2 ^ (k - 1))
    /\ through_execute(retry.call) =>
         Len(retry.waits) = IF retry.pc = "sleep" THEN retry.invocations - 1
                            ELSE retry.invocations
    /\ through_execute(retryResult.call) =>
         Len(retryResult.waits) = retryResult.invocations - 1

\* four lock conflicts in a row, then the write went through
C24_Witness ==
    /\ through_execute(retryResult.call)
    /\ retryResult.status = "returned"
    /\ retryResult.waits = <<1, 2, 4, 8>>

\* ------------------------------------------------------------------- C25
\* C25: every mutating database call is made through the lock-retry
\* executor: none of them hands a lock conflict to its caller before it was
\* attempted max_retries times.
C25_EveryWriteRetried ==
    (retryResult.status = "raised" /\ retryResult.outcome = "lock")
        => retryResult.invocations = max_retries

\* ------------------------------------------------------------------- C26
\* no object of the landing bucket matches the asset
NoneMatches(asset) ==
    \A k \in Keys : HasPrefix(k, <<asset>>) => bucket[k] = NoObject

\* an invocation is started in this step
StartStep == starts' = starts + 1

\* C26: missing source files are a warning: when no landing object matches,
\* the invocation completes at once with the status NO FILES FOUND, without
\* an error and without a write to the ledger, the version chain or the raw
\* table.
C26_NoFilesIsWarning ==
    [][StartStep /\ (\A a \in Assets : NoneMatches(a)) =>
         /\ pc' = pc
         /\ \E p \in Procs :
              /\ pc[p] = "idle"
              /\ result'[p].status = "no_files"
              /\ result'[p].error = ""
              /\ result'[p].record_calls = <<>>
              /\ \A q \in Procs \ {p} : result'[q] = result[q]
         /\ UNCHANGED <<ledger, schemaVersions, rawTable>>]_vars

\* an invocation ended with NO FILES FOUND; a file arrived afterwards
C26_Witness ==
    /\ \E p \in Procs : result[p].status = "no_files" /\ pc[p] = "idle"
    /\ \E k \in Keys : bucket[k] # NoObject

\* ------------------------------------------------------------------- C27
\* C27: an invocation selects, among the matching landing objects, the one
\* with the greatest last_modified, and that object alone is hashed, gated
\* and ingested: the key stays the selected one until the invocation ends,
\* the hash is the hash of the object under that key, the rows downloaded
\* and appended are read from that key.
C27_LatestSelected ==
    [][\A p \in Procs :
         /\ (pc[p] = "idle" /\ pc'[p] = "hash") =>
               /\ bucket[loc'[p].key] # NoObject
               /\ HasPrefix(loc'[p].key, <<loc'[p].asset>>)
               /\ \A k \in Keys :
                    (bucket[k] # NoObject /\ HasPrefix(k, <<loc'[p].asset>>))
                      => bucket[k].last_modified <= bucket[loc'[p].key].last_modified
         /\ (pc[p] # "idle" /\ pc'[p] # "idle") => loc'[p].key = loc[p].key
         /\ (pc[p] = "hash" /\ pc'[p] = "gate") =>
               loc'[p].file_hash = Md5(bucket[loc[p].key].content)
         /\ (pc[p] = "download" /\ pc'[p] = "check_schema") =>
               loc'[p].df = bucket[loc[p].key].content
         /\ (pc[p] = "append" /\ pc'[p] = "record") =>
               LET t == TableName(loc[p].asset)
               IN /\ Len(rawTable'[t]) = Len(rawTable[t]) + 1
                  /\ rawTable'[t][Len(rawTable'[t])].source_file = loc[p].key
                  /\ rawTable'[t][Len(rawTable'[t])].file_hash = loc[p].file_hash]_vars

\* two objects match, the one listed second is the newer and it was ingested
C27_Witness ==
    /\ bucket[KeyOrder[1]] # NoObject
    /\ bucket[KeyOrder[2]] # NoObject
    /\ bucket[KeyOrder[2]].last_modified > bucket[KeyOrder[1]].last_modified
    /\ \E i \in DOMAIN rawTable["raw_accounts"] :
         rawTable["raw_accounts"][i].source_file = KeyOrder[2]

\* ------------------------------------------------------------------- C28
\* C28: a run_dbt_curated invocation that ran the transformation, whether it
\* ended with a result or with an exception, has left a row in
\* curated.process_metadata.
C28_CuratedRunRecorded ==
    (/\ layResult["curated"].status \in {"processed", "raised"}
     /\ \E i \in DOMAIN layResult["curated"].cmds :
          layResult["curated"].cmds[i] \in {"run", "run_full"})
        => processMetadata # {}

\* ------------------------------------------------------------------- C29
\* the number of rows of a raw table
RowCount(batches) ==
    LET RECURSIVE sum(_)
        sum(i) == IF i = 0 THEN 0 ELSE batches[i].nrows + sum(i - 1)
    IN sum(Len(batches))

\* C29: raw tables are append-only: in every step the rows a raw table held
\* are still there, in place, so its row count never decreases; and rows
\* are added only by an ingestion attempt that passed the idempotency gate,
\* at its append.
C29_RawAppendOnly ==
    [][\A t \in Tables :
         /\ Len(rawTable'[t]) >= Len(rawTable[t])
         /\ SubSeq(rawTable'[t], 1, Len(rawTable[t])) = rawTable[t]
         /\ RowCount(rawTable'[t]) >= RowCount(rawTable[t])
         /\ rawTable'[t] # rawTable[t] =>
               \E p \in Procs :
                 /\ pc[p] = "append" /\ pc'[p] = "record"
                 /\ TableName(loc[p].asset) = t
                 /\ loc[p].gate_checked
                 /\ RowCount(rawTable'[t]) = RowCount(rawTable[t]) + NumRows(loc[p].df)]_vars

\* two ingestion attempts have appended
C29_Witness == Len(rawTable["raw_accounts"]) = 2

\* ------------------------------------------------------------------- C30
\* how many times a command occurs among the commands run
Times(cmds, names) == Cardinality({i \in DOMAIN cmds : cmds[i] \in names})

\* a non-skipped invocation of run_dbt_structured or run_dbt_curated ends
NonSkippedEnd ==
    /\ lay.layer \in {"structured", "curated"}
    /\ lay.pc \in {"deps", "build", "counts", "test"}
    /\ lay'.pc = "idle"

\* C30: in a non-skipped invocation of run_dbt_structured or
\* run_dbt_curated the validation command is run exactly once, as the last
\* command, right after the build, when the build returned success and the
\* row counts were read after it.
C30_ValidationExactlyOnce ==
    [][NonSkippedEnd =>
         LET cmds == layResult'[lay.layer].cmds
             n == Len(cmds)
         IN /\ Times(cmds, {"test"}) = 1
            /\ n >= 2
            /\ cmds[n] = "test"
            /\ cmds[n - 1] \in {"run", "run_full"}
            /\ lay.build_returncode = 0
            /\ lay.rows = CountRows(lay.layer, tables)]_vars

\* C30, amended: in a non-skipped invocation of run_dbt_structured or
\* run_dbt_curated whose build returned success the validation command is
\* run exactly once, as the last command, right after the one build command
\* and after the row counts were read; in one whose build (or dbt deps) did
\* not return success it is not run; it is never run before a build, without
\* one, or twice.
C30_BuildThenValidation ==
    [][/\ NonSkippedEnd =>
           LET cmds == layResult'[lay.layer].cmds
               n == Len(cmds)
           IN /\ Times(cmds, {"test"}) <= 1
              /\ Times(cmds, {"run", "run_full"}) <= 1
              /\ (Times(cmds, {"test"}) = 1) = (lay.pc = "test")
              /\ lay.pc = "test" =>
                    /\ n >= 2
                    /\ cmds[n] = "test"
                    /\ cmds[n - 1] \in {"run", "run_full"}
                    /\ lay.build_returncode = 0
                    /\ lay.rows = CountRows(lay.layer, tables)
       /\ (lay.layer \in {"structured", "curated"} /\ lay' # lay) =>
             /\ lay'.pc # "idle" => Times(lay'.cmds, {"test"}) = 0
             /\ (lay.pc = "build" /\ lay'.pc # "idle") => lay'.pc = "counts"
             /\ lay.pc = "counts" => lay'.pc = "test"]_vars

\* both layers have ended an invocation with the commands build, validation
C30_Witness ==
    /\ layResult["structured"].cmds = <<"deps", "run_full", "test">>
    /\ layResult["curated"].status = "processed"
    /\ layResult["curated"].cmds = <<"run_full", "test">>

\* ------------------------------------------------------------------- C31
\* C31: run_dbt_access always invokes the build: whatever the tables are,
\* its first step is the build command, without an existence check or a
\* delta check, and every invocation ends either with a result, build and
\* validation having returned success, or with an exception; never skipped.
C31_AccessAlwaysBuilds ==
    [][/\ (lay.pc = "idle" /\ lay'.layer = "access") => lay'.pc = "build"
       /\ (lay.layer = "access" /\ lay' # lay) =>
             /\ lay'.pc \in {"counts", "test", "idle"}
             /\ lay'.pc = "idle" =>
                   LET r == layResult'["access"]
                   IN /\ r.status \in {"processed", "raised"}
                      /\ r.cmds # <<>>
                      /\ r.cmds[1] = "run"
                      /\ r.status = "processed" =>
                            /\ r.cmds = <<"run", "test">>
                            /\ lay.build_returncode = 0
                            /\ r.test_returncode = 0
                            /\ r.tests_passed]_vars

\* run_dbt_access has ended with a result: build and validation succeeded
C31_Witness ==
    /\ layResult["access"].status = "processed"
    /\ layResult["access"].cmds = <<"run", "test">>
    /\ tables["account_summary"].exists

\* ------------------------------------------------------------------- C32
\* new_file_sensor is evaluated in this step
EvalStep == sensorEvals' = sensorEvals + 1

\* an object of the kind is in the landing bucket
HasKind(kind) == \E k \in SensorKeys : landing[k] # Absent /\ SensorKind(k) = kind

\* the greatest last_modified among the objects of the kind
LatestTime(kind) ==
    LET times == {landing[k] : k \in {j \in SensorKeys : SensorKind(j) = kind}}
    IN CHOOSE t \in times : \A u \in times : u <= t

\* the cursor key of the two latest files in the bucket
LatestKey == <<LatestTime("accounts"), "_", LatestTime("customers")>>

\* C32: an evaluation of new_file_sensor yields exactly one result and raises
\* nothing; the result is a RunRequest exactly when the listing succeeded,
\* an accounts CSV and a customers CSV are there and the key of their two
\* latest modification times differs from the cursor; otherwise it is a
\* SkipReason and the cursor stays as it was.
C32_SensorDecision ==
    [][EvalStep =>
         /\ Len(sensorOut'.yields) = 1
         /\ ~sensorOut'.raised
         /\ LET y == sensorOut'.yields[1]
            IN /\ y.type \in {"RunRequest", "SkipReason"}
               /\ (y.type = "RunRequest") =
                     (/\ ~sensorOut'.listing_raised
                      /\ HasKind("accounts") /\ HasKind("customers")
                      /\ cursor # LatestKey)
               /\ y.type = "RunRequest" => y.run_key = LatestKey
               /\ y.type = "SkipReason" => cursor' = cursor]_vars

\* the sensor asked for a run, then skipped an evaluation: the last
\* evaluation found the two files and a cursor equal to their key
C32_Witness ==
    /\ sensorOut.yields # <<>>
    /\ sensorOut.yields[1].type = "SkipReason"
    /\ ~sensorOut.listing_raised
    /\ HasKind("accounts") /\ HasKind("customers")
    /\ cursor = LatestKey

\* ------------------------------------------------------------------- C33
\* C33: the cursor changes exactly in an evaluation that yields a RunRequest
\* and then equals the run_key of that request; so the evaluations made
\* while the pair of latest files stays the same yield at most one RunRequest.
C33_CursorFollowsRequests ==
    [][/\ (cursor' # cursor) =
             (EvalStep /\ sensorOut'.yields # <<>>
                       /\ sensorOut'.yields[1].type = "RunRequest")
       /\ cursor' # cursor => cursor' = sensorOut'.yields[1].run_key
       /\ sensorOut'.requests <= 1]_vars

\* a run was asked for and a later evaluation over the same pair of latest
\* files skipped
C33_Witness ==
    /\ sensorOut.requests = 1
    /\ sensorOut.yields[1].type = "SkipReason"
    /\ ~sensorOut.listing_raised
    /\ cursor = sensorOut.pair

\* ------------------------------------------------------------------- C34
\* an invocation of export_account_summary is seen in this step
ExportStep == exportResult' # exportResult \/ accessBucket' # accessBucket

\* C34: export_account_summary uploads account_summary.csv exactly once in
\* an invocation that finds at least one row in access.account_summary,
\* the object then holding the rows of the table; when the table has no
\* row it uploads nothing and reports 'No data to export'.
C34_ExportOnceIfRows ==
    [][ExportStep /\ tables["account_summary"].exists =>
         IF tables["account_summary"].keys # {}
         THEN /\ exportResult'.uploads = 1
              /\ exportResult'.status = "exported"
              /\ accessBucket'.uploaded
              /\ accessBucket'.keys = tables["account_summary"].keys
         ELSE /\ exportResult'.uploads = 0
              /\ exportResult'.status = "No data to export"
              /\ accessBucket' = accessBucket]_vars

\* the export found an empty table: no savings account had come in
C34_Witness ==
    /\ exportResult.status = "No data to export"
    /\ tables["account_summary"].exists
    /\ tables["account_summary"].keys = {}
    /\ ~accessBucket.uploaded

\* ------------------------------------------------------------------- C35
\* C35: with overlapping ingestion invocations for the same raw table, no
\* two schema version rows have the same table_name and version, and every
\* version v > 1 links to the row of version v - 1 of the table.
C35_VersionsUniqueUnderOverlap ==
    \A t \in Tables :
      LET chain == ChainOf(schemaVersions, t) IN
      /\ \A r, q \in chain : r.schema_version = q.schema_version => r = q
      /\ \A r \in chain :
           r.schema_version > 1 =>
             \E q \in chain : /\ q.schema_version = r.schema_version - 1
                              /\ q.schema_id = r.previous_version_id

\* ------------------------------------------------------------------- C36
\* C36: the rows appended to a raw table under _file_hash = h were parsed
\* from bytes whose content hash is h, also when the landing object is
\* overwritten while the invocation is under way.
C36_RowsMatchHash ==
    \A t \in Tables : \A i \in DOMAIN rawTable[t] :
      rawTable[t][i].file_hash = Md5(rawTable[t][i].content)

\* ------------------------------------------------------------------- C37
\* C37: when an ingestion completes the ledger entry of its hash, the
\* row_count stored in the entry is the number of rows that ingestion
\* appended, also when the entry had been created by a failed attempt.
C37_RowCountOfCompleted ==
    [][\A p \in Procs :
         (pc[p] = "record" /\ pc'[p] = "idle" /\ result'[p].status = "ingested") =>
           \A e \in ledger' :
             e.file_hash = loc[p].file_hash =>
               /\ e.processing_status = "completed"
               /\ e.row_count = NumRows(loc[p].df)]_vars

\* C38: the runner is invoked with --full-refresh only in invocations where
\* at least one of the layer's target tables is absent from the catalog; a
\* failed existence query or delta query never makes an existing, built
\* target be fully rebuilt
C38_FullBuildOnlyWhenAbsent ==
    [][(BuildStep /\ lay.layer \in {"structured", "curated"} /\ BuildCommand = "run_full") =>
          ~AllExist(lay.layer)]_vars

\* C39: under repeated invocation of the raw ingestion with no failures,
\* every object present in the landing bucket whose content hash has no
\* completed ledger entry is eventually ingested (or is overwritten before),
\* also when a more recently modified matching object is in the bucket
C39_EveryObjectEventuallyIngested ==
    \A k \in Keys, c \in Contents :
      (bucket[k].content = c /\ ~check_file_processed(ledger, Md5(c)))
        ~> (check_file_processed(ledger, Md5(c)) \/ bucket[k].content # c)

====
